---- MODULE Spec2Model ----
(***************************************************************************)
(* Model of the browser chat client: ChatApp (sendMessage, its stream      *)
(* decode loop, handleStreamEvent, detectLanguageFromText) and VoiceChat   *)
(* (speech recognition and speech synthesis wrappers).                     *)
(*                                                                         *)
(* Text is a sequence of UTF-16 code units (integers); the response body   *)
(* is a sequence of bytes.  null is 0 where a handle is an index.          *)
(***************************************************************************)
EXTENDS Integers, Sequences, FiniteSets, TLC

VARIABLES
    \* ---- ChatApp ----
    inputValue,        \* messageInput.value
    messages,          \* children of #messages: <<[role, content]>>
    currentMessage,    \* this.currentMessage
    isStreaming,       \* this.isStreaming
    avatar,            \* #avatarState text, set by setAvatarState
    latency,           \* #latency text set by updateStatus: "" or "shown"
    calls,             \* sendMessage invocations: pc, el (contentElement), buffer, the
                       \* TextDecoder's kept bytes; body/rest: a response body written
                       \* ahead of the reads, and what of it is still to be read;
                       \* handled: frames given to handleStreamEvent;
                       \* caught: the catch block ran
    settleTimers,      \* pending setTimeout(() => setAvatarState('idle'), 2000)
    linesSent,         \* lines the backend has written so far, over all its responses
    \* ---- VoiceChat: synthesis ----
    voiceOutputEnabled,
    voices,            \* this.voices: sequence of voice.lang values
    voiceLanguage,
    currentUtterance,  \* index into utterances, 0 = null
    utterances,        \* every SpeechSynthesisUtterance created
    synthQueue,        \* the platform's utterance queue (indices)
    synthSpeaking,     \* the head of synthQueue has started speaking
    synthEvents,       \* end/error events the platform still owes to cancelled utterances
    \* ---- VoiceChat: recognition ----
    isRecording,
    recSession,        \* the platform session: "inactive", "starting", "active", "stopping"
    voiceStatus,       \* the status showVoiceStatus shows: the message and the
                       \* transcript it quotes; the empty message hides the status
    statusTimers,      \* pending setTimeout(() => showVoiceStatus('', ''), 1000)
    \* ---- the record button (closure of setupEventListeners) ----
    isHolding,
    pressTimer,        \* "null", "pending" (set, not fired), "fired" (an id whose timer ran)
    pointer,           \* what holds the button down: "up", "mouse", "touch"
    \* ---- observation of the run ----
    avatarTrace,       \* displayed states since the last accepted submission, repeats dropped
    speakLog,          \* speak(text, lang) invocations since the last accepted submission
    lastOp,            \* the call the user made last, "event" once an event has followed it
    fx,                \* platform calls made by the handler that ran last
    \* ---- pure functions under test ----
    text, detected,                     \* detectLanguageFromText
    selVoices, selLanguage, selected    \* getVoiceForLanguage

appVars   == <<inputValue, messages, currentMessage, isStreaming, avatar, latency, calls,
               settleTimers, linesSent>>
synthVars == <<voiceOutputEnabled, voices, voiceLanguage, currentUtterance, utterances,
               synthQueue, synthSpeaking, synthEvents>>
recVars   == <<isRecording, recSession, voiceStatus, statusTimers>>
btnVars   == <<isHolding, pressTimer, pointer>>
obsVars   == <<avatarTrace, speakLog, lastOp, fx>>
pureVars  == <<text, detected, selVoices, selLanguage, selected>>
vars      == <<appVars, synthVars, recVars, btnVars, obsVars, pureVars>>

(***************************************************************************)
(* Bounds of the exploration.                                              *)
(***************************************************************************)
MaxTextLen == 4     \* length of the enumerated classifier inputs
MaxVoices  == 3     \* length of the enumerated voice lists
MaxTurns   == 2     \* accepted submissions in one run
MaxLines   == 3     \* lines the backend sends in one run, over all its responses
MaxLiveLines == 2   \* the same, where faulty lines are sent too
MaxDecodeLines == 2 \* terminated lines of a response that is read byte by byte
MaxUtterances == 3  \* speak calls in one run of the speech output
MaxStatusTimers == 2 \* pending timers that clear the voice status

(***************************************************************************)
(* Sequence helpers.                                                       *)
(***************************************************************************)
SeqsUpTo(S, n) == UNION {[1..k -> S] : k \in 0..n}

Last(s) == s[Len(s)]

\* String.prototype.startsWith
StartsWith(s, p) == Len(p) <= Len(s) /\ SubSeq(s, 1, Len(p)) = p

\* String.prototype.includes
Includes(s, p) == \E i \in 1..(Len(s) + 1) :
                     i + Len(p) - 1 <= Len(s) /\ SubSeq(s, i, i + Len(p) - 1) = p

\* the first of a set of indices, 0 when there is none: Array.prototype.find,
\* String.prototype.match and split locate the first element that satisfies a test
FirstIndex(S) == IF S = {} THEN 0 ELSE CHOOSE i \in S : \A j \in S : i <= j

(***************************************************************************)
(* ChatApp.detectLanguageFromText                                          *)
(***************************************************************************)
DevanagariFirst == 2304    \* U+0900
DevanagariLast  == 2431    \* U+097F

\* the character class [\u0900-\u097F]
IsDevanagari(c) == c >= DevanagariFirst /\ c <= DevanagariLast

\* the character class \s
IsWhitespace(c) ==
    c \in ({9, 10, 11, 12, 13, 32, 160, 5760, 8232, 8233, 8239, 8287, 12288, 65279}
           \cup (8192..8202))

\* text.match(re) for a regular expression WITHOUT the g flag: null when nothing
\* matches, otherwise an array holding the first match only.  With `|| []` the
\* result is a sequence of at most one matched string.
MatchDevanagari(t) ==
    LET i == FirstIndex({k \in 1..Len(t) : IsDevanagari(t[k])})
    IN  IF i = 0 THEN <<>> ELSE << <<t[i]>> >>

\* text.replace(/\s/g, '')
StripWhitespace(t) == SelectSeq(t, LAMBDA c : ~IsWhitespace(c))

detectLanguageFromText(t) ==
    LET devanagariCount == Len(MatchDevanagari(t))
        totalChars      == Len(StripWhitespace(t))
    IN  IF totalChars = 0 THEN "en"
        ELSE IF devanagariCount = 0 THEN "en"
        \* devanagariCount / totalChars > 0.3
        ELSE IF devanagariCount * 10 > 3 * totalChars THEN "hi"
        ELSE "en"

(***************************************************************************)
(* VoiceChat.getVoiceForLanguage                                           *)
(***************************************************************************)
Lang_enUS == <<101, 110, 45, 85, 83>>        \* "en-US"
Lang_enGB == <<101, 110, 45, 71, 66>>        \* "en-GB"
Lang_hiIN == <<104, 105, 45, 73, 78>>        \* "hi-IN"
Lang_frFR == <<102, 114, 45, 70, 82>>        \* "fr-FR"
Lang_caVa == <<99, 97, 45, 118, 97, 108, 101, 110, 99, 105, 97>>   \* "ca-valencia"
Prefix_en == <<101, 110>>                    \* "en"
Prefix_hi == <<104, 105>>                    \* "hi"

\* the index in voiceList of the voice returned, 0 for null
getVoiceForLanguage(voiceList, language) ==
    IF Len(voiceList) = 0 THEN 0
    ELSE
      LET langCode   == IF language = "hi" THEN Lang_hiIN ELSE Lang_enUS
          langPrefix == IF language = "hi" THEN Prefix_hi ELSE Prefix_en
          voice  == FirstIndex({k \in 1..Len(voiceList) :
                                   \/ StartsWith(voiceList[k], langCode)
                                   \/ StartsWith(voiceList[k], langPrefix)})
          second == FirstIndex({k \in 1..Len(voiceList) :
                                   Includes(voiceList[k], langPrefix)})
      IN  IF voice # 0 THEN voice
          ELSE IF second # 0 THEN second
          ELSE 1

(***************************************************************************)
(* The stream decode loop of ChatApp.sendMessage: TextDecoder, split,      *)
(* marker test, JSON.parse.                                                *)
(***************************************************************************)
NL == 10                                      \* '\n'
Marker == <<100, 97, 116, 97, 58, 32>>        \* 'data: '
ReplacementChar == 65533                      \* U+FFFD

\* UTF-8 bytes of one code unit of the Basic Multilingual Plane
Utf8(c) ==
    IF c < 128 THEN <<c>>
    ELSE IF c < 2048 THEN <<192 + (c \div 64), 128 + (c % 64)>>
    ELSE <<224 + (c \div 4096), 128 + ((c \div 64) % 64), 128 + (c % 64)>>

RECURSIVE Utf8Seq(_)
Utf8Seq(s) == IF s = <<>> THEN <<>> ELSE Utf8(Head(s)) \o Utf8Seq(Tail(s))

\* number of bytes of the UTF-8 sequence a lead byte announces (0: not a lead byte)
Utf8Need(b) ==
    IF b < 128 THEN 1
    ELSE IF b >= 194 /\ b <= 223 THEN 2
    ELSE IF b >= 224 /\ b <= 239 THEN 3
    ELSE IF b >= 240 /\ b <= 244 THEN 4
    ELSE 0

IsContinuation(b) == b >= 128 /\ b <= 191

\* code units of a complete, valid UTF-8 sequence
Utf8Units(bs) ==
    IF Len(bs) = 1 THEN <<bs[1]>>
    ELSE IF Len(bs) = 2 THEN <<(bs[1] - 192) * 64 + (bs[2] - 128)>>
    ELSE IF Len(bs) = 3
         THEN <<(bs[1] - 224) * 4096 + (bs[2] - 128) * 64 + (bs[3] - 128)>>
    ELSE LET cp == (bs[1] - 240) * 262144 + (bs[2] - 128) * 4096
                   + (bs[3] - 128) * 64 + (bs[4] - 128)
         IN  <<55296 + ((cp - 65536) \div 1024), 56320 + ((cp - 65536) % 1024)>>

\* TextDecoder.decode(bytes, {stream: streaming}) on the bytes the decoder holds
\* (those it kept from earlier calls followed by the new ones): the code units
\* produced and the bytes kept for the next call.  A sequence cut short at the
\* end of the input is kept when streaming and becomes U+FFFD otherwise.
\* Utf8Scan reads the bytes one sequence after the other.
RECURSIVE Utf8Scan(_, _)
Utf8Scan(bs, streaming) ==
    IF bs = <<>> THEN [chars |-> <<>>, pending |-> <<>>]
    ELSE
      LET need == Utf8Need(bs[1])
          \* continuation bytes that follow the lead byte, as far as it asks for them
          cont == Cardinality({j \in 2..Len(bs) :
                     j <= need /\ \A m \in 2..j : IsContinuation(bs[m])})
      IN  IF need = 0
          THEN LET r == Utf8Scan(Tail(bs), streaming)
               IN  [chars |-> <<ReplacementChar>> \o r.chars, pending |-> r.pending]
          ELSE IF cont = need - 1
          THEN LET r == Utf8Scan(SubSeq(bs, need + 1, Len(bs)), streaming)
               IN  [chars |-> Utf8Units(SubSeq(bs, 1, need)) \o r.chars,
                    pending |-> r.pending]
          ELSE IF cont + 1 = Len(bs)
          THEN IF streaming THEN [chars |-> <<>>, pending |-> bs]
               ELSE [chars |-> <<ReplacementChar>>, pending |-> <<>>]
          ELSE LET r == Utf8Scan(SubSeq(bs, cont + 2, Len(bs)), streaming)
               IN  [chars |-> <<ReplacementChar>> \o r.chars, pending |-> r.pending]

\* The same result, computed by halves: the input is cut in front of a byte
\* that starts a sequence, so that what precedes the cut is decoded as ended.
RECURSIVE Utf8Decode(_, _)
Utf8Decode(bs, streaming) ==
    LET half == Len(bs) \div 2
        cut  == FirstIndex({k \in 1..(Len(bs) - half) : ~IsContinuation(bs[half + k])})
    IN  IF Len(bs) <= 6 \/ cut = 0 THEN Utf8Scan(bs, streaming)
        ELSE LET l == Utf8Decode(SubSeq(bs, 1, half + cut - 1), FALSE)
                 r == Utf8Decode(SubSeq(bs, half + cut, Len(bs)), streaming)
             IN  [chars |-> l.chars \o r.chars, pending |-> r.pending]

\* decoder.decode(value, { stream: true })
TextDecoderDecode(pending, value) == Utf8Decode(pending \o value, TRUE)

\* String.prototype.split('\n'): always at least one element
RECURSIVE Split(_)
Split(s) ==
    LET i == FirstIndex({k \in 1..Len(s) : s[k] = NL})
    IN  IF i = 0 THEN <<s>>
        ELSE <<SubSeq(s, 1, i - 1)>> \o Split(SubSeq(s, i + 1, Len(s)))

\* `lines` after lines.pop(): the lines the for loop visits
\* a reader that takes every piece for a line, the unterminated one too
AllLines(lines) == lines

CompleteLines(lines) == SubSeq(lines, 1, Len(lines) - 1)

\* buffer = lines.pop() || ''
\* a reader that keeps nothing between chunks
PendingLineDropped(lines) == <<>>

PendingLine(lines) == Last(lines)

(***************************************************************************)
(* The wire vocabulary.  A payload is JSON text; the model abbreviates the *)
(* texts: '{' one letter '}'.  JSON.parse is a lookup of the payload in    *)
(* the vocabulary and a SyntaxError for every other text.                  *)
(***************************************************************************)
Frame(type, content, state, metrics, message) ==
    [type |-> type, content |-> content, state |-> state, metrics |-> metrics,
     message |-> message]

TokenLatin      == Frame("token", <<72>>, "", "absent", <<>>)        \* content "H"
TokenDevanagari == Frame("token", <<2344>>, "", "absent", <<>>)      \* content U+0928
StatusThinking  == Frame("status", <<>>, "thinking", "absent", <<>>)
StatusComplete  == Frame("status", <<>>, "complete", "latency", <<>>)
\* metrics present without a numeric latency: metrics.latency.toFixed throws
StatusCompleteBadMetrics == Frame("status", <<>>, "complete", "nolatency", <<>>)
StatusError     == Frame("status", <<>>, "error", "absent", <<120>>) \* message "x"

Vocabulary == {TokenLatin, TokenDevanagari, StatusThinking, StatusComplete,
               StatusCompleteBadMetrics, StatusError}

\* the JSON text of a frame, as the backend writes it
Payload(f) ==
    LET letter == IF f.type = "token" THEN f.content[1]
                  ELSE IF f.state = "thinking" THEN 84
                  ELSE IF f.state = "error" THEN 69
                  ELSE IF f.metrics = "latency" THEN 67
                  ELSE 99
    IN  <<123, letter, 125>>

\* JSON.parse(text)
JSONparse(t) ==
    IF \E f \in Vocabulary : Payload(f) = t
    THEN [ok |-> TRUE, value |-> CHOOSE f \in Vocabulary : Payload(f) = t]
    ELSE [ok |-> FALSE, value |-> Frame("", <<>>, "", "absent", <<>>)]

\* one line of the response body, in bytes, without its newline
DataLine(f)   == Utf8Seq(Marker \o Payload(f))
KeepAliveLine == <<58, 32, 107>>                       \* ': k'
MalformedLine == Utf8Seq(Marker \o <<123, 72>>)        \* 'data: {H'

RECURSIVE Join(_)
\* the lines, each followed by a newline
Join(ls) == IF ls = <<>> THEN <<>> ELSE Head(ls) \o <<NL>> \o Join(Tail(ls))

(***************************************************************************)
(* The program state as one record, so that a handler is an operator from  *)
(* state to state and a handler that calls another composes them.          *)
(* `thrown` is set while an exception propagates out of the try block.     *)
(***************************************************************************)
Cur ==
    [inputValue |-> inputValue, messages |-> messages, currentMessage |-> currentMessage,
     isStreaming |-> isStreaming, avatar |-> avatar, latency |-> latency, calls |-> calls,
     settleTimers |-> settleTimers, linesSent |-> linesSent,
     voiceOutputEnabled |-> voiceOutputEnabled, voices |-> voices,
     voiceLanguage |-> voiceLanguage, currentUtterance |-> currentUtterance,
     utterances |-> utterances, synthQueue |-> synthQueue,
     synthSpeaking |-> synthSpeaking, synthEvents |-> synthEvents,
     isRecording |-> isRecording, recSession |-> recSession, voiceStatus |-> voiceStatus,
     statusTimers |-> statusTimers,
     isHolding |-> isHolding, pressTimer |-> pressTimer, pointer |-> pointer,
     avatarTrace |-> avatarTrace, speakLog |-> speakLog,
     lastOp |-> lastOp, fx |-> <<>>, thrown |-> FALSE]

Commit(st) ==
    /\ inputValue' = st.inputValue
    /\ messages' = st.messages
    /\ currentMessage' = st.currentMessage
    /\ isStreaming' = st.isStreaming
    /\ avatar' = st.avatar
    /\ latency' = st.latency
    /\ calls' = st.calls
    /\ settleTimers' = st.settleTimers
    /\ linesSent' = st.linesSent
    /\ voiceOutputEnabled' = st.voiceOutputEnabled
    /\ voices' = st.voices
    /\ voiceLanguage' = st.voiceLanguage
    /\ currentUtterance' = st.currentUtterance
    /\ utterances' = st.utterances
    /\ synthQueue' = st.synthQueue
    /\ synthSpeaking' = st.synthSpeaking
    /\ synthEvents' = st.synthEvents
    /\ isRecording' = st.isRecording
    /\ recSession' = st.recSession
    /\ voiceStatus' = st.voiceStatus
    /\ statusTimers' = st.statusTimers
    /\ isHolding' = st.isHolding
    /\ pressTimer' = st.pressTimer
    /\ pointer' = st.pointer
    /\ avatarTrace' = st.avatarTrace
    /\ speakLog' = st.speakLog
    /\ lastOp' = st.lastOp
    /\ fx' = st.fx

Op(st, name) == [st EXCEPT !.lastOp = name]

Range(s) == {s[i] : i \in 1..Len(s)}

(***************************************************************************)
(* VoiceChat: speech synthesis                                             *)
(***************************************************************************)
\* speechSynthesis.cancel(): every utterance leaves the queue at once; the
\* platform fires the end/error event of each of them later, as a task of its own.
synthesisCancel(st) ==
    [st EXCEPT !.synthEvents = @ \cup Range(st.synthQueue),
               !.synthQueue = <<>>,
               !.synthSpeaking = FALSE,
               !.fx = Append(@, "synthesis.cancel")]

\* the part of speak after the voiceOutputEnabled test
speakEnabled(st, t, language) ==
    LET s1    == IF st.currentUtterance # 0 THEN synthesisCancel(st) ELSE st
        lang  == IF language = "" THEN st.voiceLanguage ELSE language
        voice == getVoiceForLanguage(st.voices, lang)
        id    == Len(st.utterances) + 1
    IN  IF voice = 0 THEN s1
        ELSE [s1 EXCEPT
                !.utterances = Append(@, [text |-> t,
                                          lang |-> IF lang = "hi" THEN Lang_hiIN
                                                   ELSE Lang_enUS,
                                          voice |-> voice]),
                !.currentUtterance = id,
                !.synthQueue = Append(@, id),
                !.fx = Append(@, "synthesis.speak")]

\* a speak that does not look at voiceOutputEnabled
speakIgnoringToggle(st, t, language) ==
    speakEnabled([st EXCEPT !.speakLog = Append(@, [text |-> t, lang |-> language])],
                 t, language)

\* VoiceChat.speak(text, language); language "" stands for null
speak(st, t, language) ==
    LET s0 == [st EXCEPT !.speakLog = Append(@, [text |-> t, lang |-> language])]
    IN  IF ~s0.voiceOutputEnabled THEN s0 ELSE speakEnabled(s0, t, language)

\* utterance.onend and utterance.onerror: both clear the slot, whichever
\* utterance the event belongs to
utteranceDone(st) == [st EXCEPT !.currentUtterance = 0]

\* VoiceChat.stopSpeaking
stopSpeaking(st) == [synthesisCancel(st) EXCEPT !.currentUtterance = 0]

\* VoiceChat.setVoiceOutputEnabled
setVoiceOutputEnabled(st, enabled) ==
    LET s1 == [st EXCEPT !.voiceOutputEnabled = enabled]
    IN  IF ~enabled THEN stopSpeaking(s1) ELSE s1

\* VoiceChat.setLanguage
setLanguage(st, language) == [st EXCEPT !.voiceLanguage = language]

\* VoiceChat.loadVoices, for the list getVoices() returns
loadVoices(st, list) == [st EXCEPT !.voices = list]

(***************************************************************************)
(* VoiceChat: speech input.  recSession is the platform's side of the      *)
(* recognition object: "inactive", "starting" (start() accepted, onstart   *)
(* not yet delivered), "active", "stopping" (onend is due).                *)
(***************************************************************************)
\* VoiceChat.showVoiceStatus, for a message that may quote a transcript
showVoiceStatus(st, message, quoted) == [st EXCEPT !.voiceStatus = <<message, quoted>>]

\* VoiceChat.stopRecording
stopRecording(st) ==
    IF st.isRecording
    THEN [st EXCEPT !.fx = Append(@, "recognition.stop"),
                    !.recSession = IF @ = "active" THEN "stopping" ELSE @]
    ELSE st

\* the try block of startRecording: start() throws unless the session is inactive
tryStart(st) ==
    IF st.recSession = "inactive"
    THEN showVoiceStatus([st EXCEPT !.fx = Append(@, "recognition.start"),
                                    !.recSession = "starting"],
                         "Listening...", <<>>)
    ELSE showVoiceStatus([st EXCEPT !.fx = Append(@, "recognition.start:InvalidStateError")],
                         "Failed to start recording", <<>>)

\* a startRecording that does not look at isRecording
startWithoutToggle(st) == tryStart(st)

\* VoiceChat.startRecording, in a browser that supports recognition
startRecording(st) == IF st.isRecording THEN stopRecording(st) ELSE tryStart(st)

\* VoiceChat.handleRecognitionError
handleRecognitionError(st, error) ==
    showVoiceStatus(st,
        CASE error = "no-speech" -> "No speech detected"
          [] error = "audio-capture" -> "Microphone not found"
          [] error = "not-allowed" -> "Microphone permission denied"
          [] error = "network" -> "Network error"
          [] OTHER -> "Recording error",
        <<>>)

\* recognition.onstart
recognitionOnStart(st) == [st EXCEPT !.isRecording = TRUE]

\* recognition.onerror
recognitionOnError(st, error) == stopRecording(handleRecognitionError(st, error))

\* an onend listener that leaves isRecording as it is
recognitionOnEndKeeps(st) == st

\* recognition.onend
recognitionOnEnd(st) == [st EXCEPT !.isRecording = FALSE]

\* the timer of handleTranscript fires
statusTimer(st) == showVoiceStatus([st EXCEPT !.statusTimers = @ - 1], "", <<>>)

(***************************************************************************)
(* ChatApp                                                                 *)
(***************************************************************************)
\* 'Error: Failed to send message. Please try again.'
FailedMessage ==
    <<69, 114, 114, 111, 114, 58, 32, 70, 97, 105, 108, 101, 100, 32, 116, 111, 32, 115,
      101, 110, 100, 32, 109, 101, 115, 115, 97, 103, 101, 46, 32, 80, 108, 101, 97, 115,
      101, 32, 116, 114, 121, 32, 97, 103, 97, 105, 110, 46>>

\* '\n\n[Error: ' + message + ']'
ErrorAnnotation(message) == <<10, 10, 91, 69, 114, 114, 111, 114, 58, 32>> \o message \o <<93>>

\* String.prototype.trim
RECURSIVE TrimStart(_)
TrimStart(s) == IF s # <<>> /\ IsWhitespace(Head(s)) THEN TrimStart(Tail(s)) ELSE s

RECURSIVE TrimEnd(_)
TrimEnd(s) ==
    IF s # <<>> /\ IsWhitespace(Last(s)) THEN TrimEnd(SubSeq(s, 1, Len(s) - 1)) ELSE s

Trim(s) == TrimEnd(TrimStart(s))

setAvatarState(st, state) ==
    [st EXCEPT !.avatar = state,
               !.avatarTrace = IF @ # <<>> /\ Last(@) = state THEN @ ELSE Append(@, state)]

addMessage(st, content, role) ==
    [st EXCEPT !.messages = Append(@, [role |-> role, content |-> content])]

\* a token handler that keeps only the content of the frame at hand
handleTokenReplacing(st, event, el) ==
    LET s1 == [st EXCEPT !.currentMessage = event.content]
        s2 == [s1 EXCEPT !.messages[el].content = s1.currentMessage]
    IN  setAvatarState(s2, "streaming")

\* case 'token'
handleToken(st, event, el) ==
    LET s1 == [st EXCEPT !.currentMessage = @ \o event.content]
        s2 == [s1 EXCEPT !.messages[el].content = s1.currentMessage]
    IN  setAvatarState(s2, "streaming")

\* case 'status', state 'complete'
handleComplete(st, event) ==
    LET s1 == setAvatarState(st, "speaking")
    IN  IF event.metrics = "nolatency" THEN [s1 EXCEPT !.thrown = TRUE]
        ELSE
          LET s2 == IF event.metrics = "latency" THEN [s1 EXCEPT !.latency = "shown"]
                    ELSE s1
              s3 == IF s2.currentMessage # <<>>
                    THEN speak(s2, s2.currentMessage,
                               detectLanguageFromText(s2.currentMessage))
                    ELSE s2
          IN  [s3 EXCEPT !.settleTimers = @ + 1]

\* case 'status', state 'error'
handleError(st, event, el) ==
    LET s1 == setAvatarState(st, "error")
    IN  [s1 EXCEPT !.messages[el].content = s1.currentMessage \o ErrorAnnotation(event.message)]

\* a dispatch that passes over the thinking status
handleStreamEventNoThinking(st, event, el) ==
    IF event.type = "token" THEN handleToken(st, event, el)
    ELSE IF event.type = "status"
    THEN IF event.state = "complete" THEN handleComplete(st, event)
         ELSE IF event.state = "error" THEN handleError(st, event, el)
         ELSE st
    ELSE st

handleStreamEvent(st, event, el) ==
    IF event.type = "token" THEN handleToken(st, event, el)
    ELSE IF event.type = "status"
    THEN IF event.state = "thinking" THEN setAvatarState(st, "thinking")
         ELSE IF event.state = "complete" THEN handleComplete(st, event)
         ELSE IF event.state = "error" THEN handleError(st, event, el)
         ELSE st
    ELSE st

\* a loop body that passes over a data line whose payload does not parse
processLineSkipBad(st, line, i) ==
    LET data == JSONparse(SubSeq(line, Len(Marker) + 1, Len(line)))
    IN  IF StartsWith(line, Marker) /\ data.ok
        THEN handleStreamEvent([st EXCEPT !.calls[i].handled = Append(@, data.value)],
                               data.value, st.calls[i].el)
        ELSE st

\* the body of `for (const line of lines)` for one line, in invocation i
processLine(st, line, i) ==
    IF StartsWith(line, Marker)
    THEN LET data == JSONparse(SubSeq(line, Len(Marker) + 1, Len(line)))
         IN  IF ~data.ok THEN [st EXCEPT !.thrown = TRUE]
             ELSE handleStreamEvent([st EXCEPT !.calls[i].handled = Append(@, data.value)],
                                    data.value, st.calls[i].el)
    ELSE st

RECURSIVE processLines(_, _, _)
processLines(st, lines, i) ==
    IF lines = <<>> \/ st.thrown THEN st
    ELSE processLines(processLine(st, Head(lines), i), Tail(lines), i)

\* the finally block of sendMessage, in invocation i
finallyBlock(st, i) ==
    LET s1 == [st EXCEPT !.isStreaming = FALSE, !.calls[i].pc = "done", !.thrown = FALSE]
    IN  setAvatarState(s1, "idle")

\* a catch block that is not followed by the finally block
catchWithoutFinally(st, i) ==
    LET s1 == [st EXCEPT !.calls[i].caught = TRUE, !.calls[i].pc = "done",
                         !.thrown = FALSE]
    IN  setAvatarState(addMessage(s1, FailedMessage, "assistant"), "error")

\* a catch block that shows nothing
catchSilently(st, i) == finallyBlock([st EXCEPT !.calls[i].caught = TRUE], i)

\* the catch block of sendMessage, then its finally block
catchBlock(st, i) ==
    LET s1 == [st EXCEPT !.calls[i].caught = TRUE]
    IN  finallyBlock(setAvatarState(addMessage(s1, FailedMessage, "assistant"), "error"), i)

Busy == {"thinking", "streaming", "speaking"}

\* a guard that only refuses the empty message
sendGuardEmptyOnly(st, message) == message = <<>>

\* a guard that reads the displayed state in place of the isStreaming flag
sendGuardByAvatar(st, message) == message = <<>> \/ st.avatar \in Busy

\* if (!message || this.isStreaming) return;
sendGuard(st, message) == message = <<>> \/ st.isStreaming

\* the locals of an invocation that has returned
Returned == [pc |-> "done", el |-> 0, body |-> <<>>, rest |-> <<>>, decoder |-> <<>>,
             buffer |-> <<>>, handled |-> <<>>, caught |-> FALSE]

\* the invocations, those that have returned without their locals
Forget(cs) == [k \in 1..Len(cs) |-> IF cs[k].pc = "done" THEN Returned ELSE cs[k]]

\* sendMessage from its first line to `await fetch(...)`
sendMessageStart(st) ==
    LET message == Trim(st.inputValue)
    IN  IF sendGuard(st, message) THEN Op(st, "sendMessage:rejected")
        ELSE
          LET s1 == addMessage([st EXCEPT !.inputValue = <<>>], message, "user")
              s2 == [s1 EXCEPT !.isStreaming = TRUE, !.currentMessage = <<>>,
                               !.avatarTrace = <<>>, !.speakLog = <<>>]
              s3 == addMessage(setAvatarState(s2, "thinking"), <<>>, "assistant")
              call == [pc |-> "fetch", el |-> Len(s3.messages), body |-> <<>>,
                       rest |-> <<>>, decoder |-> <<>>, buffer |-> <<>>,
                       handled |-> <<>>, caught |-> FALSE]
          IN  Op([s3 EXCEPT !.calls = Append(Forget(@), call), !.fx = <<"fetch">>],
                 "sendMessage")

\* one turn of the while loop, for a chunk `value`: from the resolution of
\* reader.read() to the next await
readChunk(st, i, value) ==
    LET call  == st.calls[i]
        d     == TextDecoderDecode(call.decoder, value)
        lines == Split(call.buffer \o d.chars)
        s1    == [st EXCEPT !.calls[i].decoder = d.pending,
                            !.calls[i].buffer = PendingLine(lines)]
        s2    == processLines(s1, CompleteLines(lines), i)
    IN  IF s2.thrown THEN catchBlock(s2, i) ELSE s2

\* VoiceChat.handleTranscript, which writes the message box
handleTranscript(st, transcript, isFinal) ==
    IF isFinal
    THEN showVoiceStatus([st EXCEPT !.inputValue = Trim(transcript),
                                    !.statusTimers = @ + 1],
                         "Transcript ready", <<>>)
    ELSE showVoiceStatus(st, "Listening: ", transcript)

(***************************************************************************)
(* The record button: click toggles, holding for 300 ms starts.            *)
(***************************************************************************)
\* the click listener
buttonClick(st) ==
    IF st.isHolding THEN st
    ELSE IF st.isRecording THEN stopRecording(st) ELSE startRecording(st)

\* the mousedown listener and the touchstart listener
buttonDown(st) == [st EXCEPT !.isHolding = TRUE, !.pressTimer = "pending"]

\* the mouseup, mouseleave and touchend listeners
buttonRelease(st) ==
    [st EXCEPT !.isHolding = FALSE, !.pressTimer = "null"]

\* the callback of the 300 ms timer
holdTimer(st) ==
    LET s1 == [st EXCEPT !.pressTimer = "fired"]
    IN  IF ~s1.isRecording THEN startRecording(s1) ELSE s1

(***************************************************************************)
(* The environment of ChatApp: the user, the network, the timers.          *)
(***************************************************************************)
\* what the user may have typed: ' Hi '
InputPool == {<<32, 72, 105, 32>>}

\* the lines of a response that follows the protocol
ProtocolLines == {DataLine(f) : f \in {TokenDevanagari, StatusThinking, StatusComplete,
                                       StatusError}}

\* the lines of any response: also keep-alives, a frame whose handling throws,
\* a payload that does not parse
LinePool ==
    {DataLine(f) : f \in {TokenLatin, StatusComplete, StatusCompleteBadMetrics, StatusError}}
        \cup {KeepAliveLine, MalformedLine}

\* the bytes of between 1 and n lines of `pool`, every line terminated
LineRuns(pool, n) == {Join(ls) : ls \in SeqsUpTo(pool, n) \ {<<>>}}

NewlinesIn(bs) == Cardinality({k \in 1..Len(bs) : bs[k] = NL})

\* the state after `new ChatApp()`, with the voice list getVoices() returned
Fresh ==
    [inputValue |-> <<>>, messages |-> <<>>, currentMessage |-> <<>>,
     isStreaming |-> FALSE, avatar |-> "idle", latency |-> "", calls |-> <<>>,
     settleTimers |-> 0, linesSent |-> 0,
     voiceOutputEnabled |-> TRUE, voices |-> <<Lang_enUS, Lang_hiIN>>,
     voiceLanguage |-> "en", currentUtterance |-> 0,
     utterances |-> <<>>, synthQueue |-> <<>>,
     synthSpeaking |-> FALSE, synthEvents |-> {},
     isRecording |-> FALSE, recSession |-> "inactive", voiceStatus |-> <<"", <<>>>>,
     statusTimers |-> 0,
     isHolding |-> FALSE, pressTimer |-> "null", pointer |-> "up",
     avatarTrace |-> <<>>, speakLog |-> <<>>,
     lastOp |-> "init", fx |-> <<>>, thrown |-> FALSE]

\* the variables hold the state st
Holds(st) ==
    /\ inputValue = st.inputValue
    /\ messages = st.messages
    /\ currentMessage = st.currentMessage
    /\ isStreaming = st.isStreaming
    /\ avatar = st.avatar
    /\ latency = st.latency
    /\ calls = st.calls
    /\ settleTimers = st.settleTimers
    /\ linesSent = st.linesSent
    /\ voiceOutputEnabled = st.voiceOutputEnabled
    /\ voices = st.voices
    /\ voiceLanguage = st.voiceLanguage
    /\ currentUtterance = st.currentUtterance
    /\ utterances = st.utterances
    /\ synthQueue = st.synthQueue
    /\ synthSpeaking = st.synthSpeaking
    /\ synthEvents = st.synthEvents
    /\ isRecording = st.isRecording
    /\ recSession = st.recSession
    /\ voiceStatus = st.voiceStatus
    /\ statusTimers = st.statusTimers
    /\ isHolding = st.isHolding
    /\ pressTimer = st.pressTimer
    /\ pointer = st.pointer
    /\ avatarTrace = st.avatarTrace
    /\ speakLog = st.speakLog
    /\ lastOp = st.lastOp
    /\ fx = st.fx

InitPure ==
    /\ text = <<>>
    /\ detected = "none"
    /\ selVoices = <<>>
    /\ selLanguage = "en"
    /\ selected = 0

Init == Holds(Fresh) /\ InitPure

\* the user edits the message box
TypeInput ==
    /\ \E v \in InputPool :
          /\ v # inputValue
          /\ Commit(Op([Cur EXCEPT !.inputValue = v], "event"))
    /\ UNCHANGED pureVars

\* click on the send button, or Enter in the message box
SendMessage ==
    /\ sendGuard(Cur, Trim(inputValue)) \/ Len(calls) < MaxTurns
    /\ Commit(sendMessageStart(Cur))
    /\ UNCHANGED pureVars

\* fetch resolves with an OK response: getReader, TextDecoder, buffer = ''
FetchOk(i) ==
    /\ calls[i].pc = "fetch"
    /\ Commit(Op([Cur EXCEPT !.calls[i].pc = "reading"], "event"))
    /\ UNCHANGED pureVars

\* fetch resolves with a response that is not OK: throw new Error(`HTTP ...`)
FetchNotOk(i) ==
    /\ calls[i].pc = "fetch"
    /\ Commit(Op(catchBlock(Cur, i), "event"))
    /\ UNCHANGED pureVars

\* fetch rejects
FetchRejected(i) ==
    /\ calls[i].pc = "fetch"
    /\ Commit(Op(catchBlock(Cur, i), "event"))
    /\ UNCHANGED pureVars

\* the backend writes the bytes `value` to the response body and reader.read()
\* resolves with them as one chunk
ReadRun(i, value) ==
    Commit(Op(readChunk([Cur EXCEPT !.linesSent = @ + NewlinesIn(value)], i, value),
              "event"))

\* a chunk of whole lines of a response that follows the protocol
ReadLines(i) ==
    /\ calls[i].pc = "reading"
    /\ calls[i].rest = <<>>
    /\ \E value \in LineRuns(ProtocolLines, MaxLines - linesSent) : ReadRun(i, value)
    /\ UNCHANGED pureVars

\* a chunk of whole lines of any response
ReadAnyLines(i) ==
    /\ calls[i].pc = "reading"
    /\ calls[i].rest = <<>>
    /\ \E value \in LineRuns(LinePool, MaxLiveLines - linesSent) : ReadRun(i, value)
    /\ UNCHANGED pureVars

\* reader.read() resolves with done: break, then the finally block
ReadDone(i) ==
    /\ calls[i].pc = "reading"
    /\ calls[i].rest = <<>>
    /\ Commit(Op(finallyBlock(Cur, i), "event"))
    /\ UNCHANGED pureVars

\* reader.read() rejects: the connection broke
ReadFailed(i) ==
    /\ calls[i].pc = "reading"
    /\ Commit(Op(catchBlock(Cur, i), "event"))
    /\ UNCHANGED pureVars

\* setTimeout(() => this.setAvatarState('idle'), 2000) fires
SettleTimer ==
    /\ settleTimers > 0
    /\ Commit(Op(setAvatarState([Cur EXCEPT !.settleTimers = @ - 1], "idle"),
                 "event"))
    /\ UNCHANGED pureVars

\* the platform starts speaking the head of its queue: utterance.onstart
UtteranceStart ==
    /\ synthQueue # <<>>
    /\ ~synthSpeaking
    /\ Commit(Op([Cur EXCEPT !.synthSpeaking = TRUE], "event"))
    /\ UNCHANGED pureVars

\* the platform finishes the utterance it is speaking: utterance.onend
UtteranceEnd ==
    /\ synthQueue # <<>>
    /\ synthSpeaking
    /\ Commit(Op(utteranceDone([Cur EXCEPT !.synthQueue = Tail(@),
                                           !.synthSpeaking = FALSE]),
                 "event"))
    /\ UNCHANGED pureVars

\* the platform fails on the head of its queue: utterance.onerror
UtteranceError ==
    /\ synthQueue # <<>>
    /\ Commit(Op(utteranceDone([Cur EXCEPT !.synthQueue = Tail(@),
                                           !.synthSpeaking = FALSE]),
                 "event"))
    /\ UNCHANGED pureVars

\* the platform delivers the end/error event of an utterance that cancel() removed
UtteranceCancelled ==
    /\ \E u \in synthEvents :
          Commit(Op(utteranceDone([Cur EXCEPT !.synthEvents = @ \ {u}]),
                    "event"))
    /\ UNCHANGED pureVars

\* the user switches the voice output toggle
SetVoiceOutputEnabled ==
    /\ \E enabled \in BOOLEAN :
          /\ enabled # voiceOutputEnabled
          /\ Commit(Op(setVoiceOutputEnabled(Cur, enabled), "event"))
    /\ UNCHANGED pureVars

Turn(i) ==
    \/ FetchOk(i) \/ FetchNotOk(i) \/ FetchRejected(i)
    \/ ReadLines(i) \/ ReadDone(i) \/ ReadFailed(i)

Platform ==
    \/ SettleTimer
    \/ UtteranceStart \/ UtteranceEnd \/ UtteranceError \/ UtteranceCancelled

Next ==
    \/ TypeInput
    \/ SendMessage
    \/ \E i \in 1..Len(calls) : Turn(i)
    \/ Platform

\* ChatApp with a backend that follows the protocol
Spec == Init /\ [][Next]_vars

(***************************************************************************)
(* ChatApp with a backend that may send any line, and with the fairness    *)
(* the network gives: a request settles, a response ends.                  *)
(***************************************************************************)
FetchSettles == \E i \in 1..Len(calls) : FetchOk(i) \/ FetchNotOk(i) \/ FetchRejected(i)

ResponseEnds == \E i \in 1..Len(calls) : ReadDone(i) \/ ReadFailed(i)

NextLive ==
    \/ TypeInput
    \/ SendMessage
    \/ FetchSettles
    \/ \E i \in 1..Len(calls) : ReadAnyLines(i)
    \/ ResponseEnds
    \/ Platform
    \/ SetVoiceOutputEnabled

SpecLive == Init /\ [][NextLive]_vars /\ WF_vars(FetchSettles) /\ WF_vars(ResponseEnds)

(***************************************************************************)
(* Claims about ChatApp                                                    *)
(***************************************************************************)
Live(i) == calls[i].pc \in {"fetch", "reading"}

RECURSIVE Concat(_)
Concat(ss) == IF ss = <<>> THEN <<>> ELSE Head(ss) \o Concat(Tail(ss))

\* the frames are n >= 1 tokens followed by one Status complete
TokensThenComplete(fs) ==
    /\ Len(fs) >= 2
    /\ \A k \in 1..(Len(fs) - 1) : fs[k].type = "token"
    /\ Last(fs).type = "status" /\ Last(fs).state = "complete"

TokenText(fs) == Concat([k \in 1..(Len(fs) - 1) |-> fs[k].content])

\* C3: a turn whose stream is tokens t1..tn followed by one Status complete, with
\* voice output enabled and a voice available, ends with the rendered text
\* t1..tn, with the displayed states Thinking, StreamingText, Speaking, Idle in
\* that order, and with speak invoked exactly once, with the text and the tag the
\* classifier gives for it.
C3_EndToEnd ==
    \A i \in 1..Len(calls) :
        ( /\ calls[i].pc = "done" /\ ~calls[i].caught
          /\ TokensThenComplete(calls[i].handled)
          /\ voiceOutputEnabled /\ voices # <<>> )
        => LET t == TokenText(calls[i].handled)
           IN  /\ messages[calls[i].el].content = t
               /\ avatarTrace = <<"thinking", "streaming", "speaking", "idle">>
               /\ speakLog = <<[text |-> t, lang |-> detectLanguageFromText(t)]>>

\* C4: a sendMessage call made while the displayed state is Thinking,
\* StreamingText or Speaking is rejected: it changes neither currentMessage,
\* the rendered messages, the displayed state nor the input text, and it
\* opens no request.
C4_BusySubmitRejected ==
    [][ (lastOp' \in {"sendMessage", "sendMessage:rejected"} /\ avatar \in Busy)
        => /\ lastOp' = "sendMessage:rejected"
           /\ currentMessage' = currentMessage
           /\ messages' = messages
           /\ avatar' = avatar
           /\ inputValue' = inputValue
           /\ calls' = calls
           /\ fx' = <<>> ]_vars

\* a submission with a message was rejected while the reply was streaming
C4_Witness ==
    /\ lastOp = "sendMessage:rejected"
    /\ avatar = "streaming"
    /\ Trim(inputValue) # <<>>

\* C5: at most one sendMessage invocation is between opening its request and
\* its finally block.
C5_OneLiveTurn == Cardinality({i \in 1..Len(calls) : Live(i)}) <= 1

\* a second turn is reading its stream after the first has returned, and a
\* submission made meanwhile was rejected
C5_Witness ==
    /\ Len(calls) = 2
    /\ calls[1].pc = "done"
    /\ calls[2].pc = "reading"
    /\ lastOp = "sendMessage:rejected"
    /\ Trim(inputValue) # <<>>

\* C7: every opened turn returns to Idle with the turn released, however the
\* request ends.
C7_TurnReleased == isStreaming ~> (~isStreaming /\ avatar = "idle")

\* a turn was released by the catch block after frames had been handled
C7_Witness ==
    \E i \in 1..Len(calls) :
        /\ calls[i].pc = "done" /\ calls[i].caught
        /\ calls[i].handled # <<>>
        /\ ~isStreaming /\ avatar = "idle"

(***************************************************************************)
(* detectLanguageFromText on its own: a text is drawn, then classified.    *)
(***************************************************************************)
HelloWorld == <<72, 101, 108, 108, 111, 32, 119, 111, 114, 108, 100>>

\* the Hindi greeting "namaste duniya", 12 Devanagari code units and a space
NamasteDuniya ==
    <<2344, 2350, 2360, 2381, 2340, 2375, 32, 2342, 2369, 2344, 2367, 2351, 2366>>

\* 3 Devanagari code units among 10 that are not whitespace
ThreeInTen == <<2344, 2350, 2360, 72, 72, 72, 72, 32, 72, 72, 72>>

TextUnits == {72, 2344, 32}

Texts == SeqsUpTo(TextUnits, MaxTextLen) \cup {HelloWorld, NamasteDuniya, ThreeInTen}

InitClassify ==
    /\ Holds(Fresh)
    /\ text \in Texts
    /\ detected = "none"
    /\ selVoices = <<>> /\ selLanguage = "en" /\ selected = 0

Classify ==
    /\ detected = "none"
    /\ detected' = detectLanguageFromText(text)
    /\ UNCHANGED <<appVars, synthVars, recVars, btnVars, obsVars, text, selVoices, selLanguage, selected>>

NextClassify == Classify

SpecClassify == InitClassify /\ [][NextClassify]_vars

DevanagariUnits(t) == Cardinality({k \in 1..Len(t) : IsDevanagari(t[k])})

NonWhitespaceUnits(t) == Cardinality({k \in 1..Len(t) : ~IsWhitespace(t[k])})

\* C2: the classifier answers 'hi' exactly when the text has a character that is
\* not whitespace and its Devanagari characters are more than 0.3 of those
\* characters, and 'en' otherwise; "namaste duniya" in Devanagari is 'hi' and
\* "Hello world" is 'en'.
C2_RatioDecides ==
    detected # "none" =>
        (detected = "hi") <=>
            ( /\ NonWhitespaceUnits(text) > 0
              /\ 10 * DevanagariUnits(text) > 3 * NonWhitespaceUnits(text) )

(***************************************************************************)
(* getVoiceForLanguage on its own: a voice list and a language are drawn,  *)
(* then the voice is selected.                                             *)
(***************************************************************************)
VoiceLangs == {Lang_enUS, Lang_enGB, Lang_hiIN, Lang_frFR, Lang_caVa}

InitSelect ==
    /\ Holds(Fresh)
    /\ text = <<>> /\ detected = "none"
    /\ selVoices \in SeqsUpTo(VoiceLangs, MaxVoices)
    /\ selLanguage \in {"en", "hi"}
    /\ selected = -1

Select ==
    /\ selected = -1
    /\ selected' = getVoiceForLanguage(selVoices, selLanguage)
    /\ UNCHANGED <<appVars, synthVars, recVars, btnVars, obsVars, text, detected, selVoices, selLanguage>>

NextSelect == Select

SpecSelect == InitSelect /\ [][NextSelect]_vars

RegionalTag(language) == IF language = "hi" THEN Lang_hiIN ELSE Lang_enUS

LanguagePrefix(language) == IF language = "hi" THEN Prefix_hi ELSE Prefix_en

RegionalMatches == {k \in 1..Len(selVoices) : selVoices[k] = RegionalTag(selLanguage)}

PrefixMatches ==
    {k \in 1..Len(selVoices) : StartsWith(selVoices[k], LanguagePrefix(selLanguage))}

\* C10: getVoiceForLanguage returns a voice with the regional tag of the language
\* (hi-IN, en-US) when the list has one, otherwise a voice whose locale starts
\* with the language prefix when the list has one, otherwise the first voice.
C10_PreferenceOrder ==
    (selected # -1 /\ selVoices # <<>>) =>
        IF RegionalMatches # {} THEN selected \in RegionalMatches
        ELSE IF PrefixMatches # {} THEN selected \in PrefixMatches
        ELSE selected = 1

(***************************************************************************)
(* The read loop on its own: one turn whose response body is already       *)
(* written, read in chunks of any size, the empty chunk included.          *)
(***************************************************************************)
DecodeLines ==
    {DataLine(TokenLatin), DataLine(TokenDevanagari), KeepAliveLine, <<>>, MalformedLine}

\* what follows the last newline of a body: nothing, or a whole data line
DecodeTails == {<<>>, DataLine(TokenLatin)}

DecodeBodies ==
    {Join(ls) \o tail : ls \in SeqsUpTo(DecodeLines, MaxDecodeLines), tail \in DecodeTails}

\* ' Hi ' was submitted, fetch resolved OK, the body b is still to be read
Streaming(b) ==
    LET s1 == sendMessageStart([Fresh EXCEPT !.inputValue = <<32, 72, 105, 32>>])
    IN  Op([s1 EXCEPT !.calls[1].pc = "reading", !.calls[1].body = b,
                      !.calls[1].rest = b, !.linesSent = NewlinesIn(b),
                      !.fx = <<>>], "event")

InitDecode ==
    /\ \E b \in DecodeBodies : Holds(Streaming(b))
    /\ InitPure

\* reader.read() resolves with the next k bytes of the body
ReadBytes(i) ==
    /\ calls[i].pc = "reading"
    /\ \E k \in 0..Len(calls[i].rest) :
          Commit(Op(readChunk([Cur EXCEPT !.calls[i].rest = SubSeq(@, k + 1, Len(@))],
                              i, SubSeq(calls[i].rest, 1, k)),
                    "event"))
    /\ UNCHANGED pureVars

NextDecode ==
    \/ \E i \in 1..Len(calls) : ReadBytes(i)
    \/ \E i \in 1..Len(calls) : ReadDone(i)

SpecDecode == InitDecode /\ [][NextDecode]_vars

\* the bytes of the body that invocation i has read
Received(i) == SubSeq(calls[i].body, 1, Len(calls[i].body) - Len(calls[i].rest))

\* the state had the bytes bs arrived as a single chunk
OneShot(bs) == readChunk([Streaming(bs) EXCEPT !.calls[1].rest = <<>>], 1, bs)

\* C1: however the bytes of a stream are split into chunks (inside a line, inside
\* a multi-byte character, or not at all), the frames handed to the handler, in
\* order, and the text rendered from them are those of the same bytes delivered
\* as a single chunk.
C1_ChunkingInvariant ==
    \A i \in 1..Len(calls) :
        calls[i].body # <<>> =>
            /\ calls[i].handled = OneShot(Received(i)).calls[1].handled
            /\ (i = Len(calls) /\ calls[i].pc = "reading")
                   => currentMessage = OneShot(Received(i)).currentMessage

\* frames have been handled and the last chunk ended inside a multi-byte
\* character of an unfinished line
C1_Witness ==
    \E i \in 1..Len(calls) :
        /\ calls[i].pc = "reading"
        /\ calls[i].handled # <<>>
        /\ calls[i].decoder # <<>>
        /\ calls[i].buffer # <<>>

NewlineAt(t) == {k \in 1..Len(t) : t[k] = NL}

\* the pieces of t that end with a newline, without the newline
TerminatedLines(t) ==
    LET pos(k) == IF k = 0 THEN 0
                  ELSE CHOOSE p \in NewlineAt(t) :
                           Cardinality({q \in NewlineAt(t) : q <= p}) = k
    IN  [k \in 1..Cardinality(NewlineAt(t)) |-> SubSeq(t, pos(k - 1) + 1, pos(k) - 1)]

HasMarker(line) == StartsWith(line, Marker)

\* the frames of the data lines among `lines`, up to the first that does not parse
FramesOf(lines) ==
    LET dl     == SelectSeq(lines, HasMarker)
        parsed == [k \in 1..Len(dl) |-> JSONparse(SubSeq(dl[k], Len(Marker) + 1, Len(dl[k])))]
        bad    == {k \in 1..Len(dl) : ~parsed[k].ok}
        n      == IF bad = {} THEN Len(dl)
                  ELSE (CHOOSE k \in bad : \A j \in bad : k <= j) - 1
    IN  [k \in 1..n |-> parsed[k].value]

\* C9: the frames handed to the handler are those of the lines that a newline
\* terminates; what follows the last newline is never parsed, and the end of
\* the stream flushes nothing.
C9_OnlyTerminatedLines ==
    \A i \in 1..Len(calls) :
        calls[i].body # <<>> =>
            calls[i].handled = FramesOf(TerminatedLines(Utf8Scan(Received(i), TRUE).chars))

\* the stream has ended with a whole data line left unterminated in the buffer
C9_Witness ==
    \E i \in 1..Len(calls) :
        /\ calls[i].pc = "done" /\ ~calls[i].caught
        /\ calls[i].rest = <<>>
        /\ calls[i].handled # <<>>
        /\ HasMarker(calls[i].buffer)
        /\ JSONparse(SubSeq(calls[i].buffer, Len(Marker) + 1, Len(calls[i].buffer))).ok

(***************************************************************************)
(* VoiceChat speech output on its own: speak is called with any text and   *)
(* language while the platform delivers the events of the utterances.      *)
(***************************************************************************)
SpeakTexts == {<<72>>}

Speak ==
    /\ Len(speakLog) < MaxUtterances
    /\ \E t \in SpeakTexts, language \in {"", "hi"} :
          Commit(Op(speak(Cur, t, language), "speak"))
    /\ UNCHANGED pureVars

StopSpeaking ==
    /\ Commit(Op(stopSpeaking(Cur), "stopSpeaking"))
    /\ UNCHANGED pureVars

SetLanguage ==
    /\ \E language \in {"en", "hi"} : Commit(Op(setLanguage(Cur, language), "event"))
    /\ UNCHANGED pureVars

\* synthesis.onvoiceschanged
VoicesChanged ==
    /\ \E list \in {<<>>, <<Lang_enUS, Lang_hiIN>>} :
          Commit(Op(loadVoices(Cur, list), "event"))
    /\ UNCHANGED pureVars

NextSynthesis ==
    \/ Speak
    \/ StopSpeaking
    \/ SetVoiceOutputEnabled
    \/ SetLanguage
    \/ VoicesChanged
    \/ UtteranceStart \/ UtteranceEnd \/ UtteranceError \/ UtteranceCancelled

SpecSynthesis == Init /\ [][NextSynthesis]_vars

\* C6: the platform holds at most one utterance, speaking or queued: a speak
\* call made while an utterance is outstanding cancels it first.
C6_OneUtterance == Len(synthQueue) <= 1

(***************************************************************************)
(* VoiceChat speech input on its own: startRecording and stopRecording are *)
(* called at any time while the platform delivers the recognition events.  *)
(***************************************************************************)
Transcripts == {<<32, 72, 105>>}

RecognitionErrors == {"no-speech", "audio-capture", "not-allowed", "network", "aborted"}

StartRecording ==
    /\ Commit(Op(startRecording(Cur), "startRecording"))
    /\ UNCHANGED pureVars

StopRecording ==
    /\ Commit(Op(stopRecording(Cur), "stopRecording"))
    /\ UNCHANGED pureVars

\* the platform delivers recognition.onstart
RecOnStart ==
    /\ recSession = "starting"
    /\ Commit(Op(recognitionOnStart([Cur EXCEPT !.recSession = "active"]), "event"))
    /\ UNCHANGED pureVars

\* the platform delivers recognition.onresult
RecOnResult ==
    /\ recSession \in {"active", "stopping"}
    /\ \E transcript \in Transcripts, isFinal \in BOOLEAN :
          /\ isFinal => statusTimers < MaxStatusTimers
          /\ Commit(Op(handleTranscript(Cur, transcript, isFinal), "event"))
    /\ UNCHANGED pureVars

\* the platform delivers recognition.onerror; onend is then due
RecOnError ==
    /\ recSession \in {"starting", "active"}
    /\ \E error \in RecognitionErrors :
          Commit(Op([recognitionOnError(Cur, error) EXCEPT !.recSession = "stopping"],
                    "event"))
    /\ UNCHANGED pureVars

\* the platform delivers recognition.onend
RecOnEnd ==
    /\ recSession \in {"active", "stopping"}
    /\ Commit(Op(recognitionOnEnd([Cur EXCEPT !.recSession = "inactive"]), "event"))
    /\ UNCHANGED pureVars

StatusTimer ==
    /\ statusTimers > 0
    /\ Commit(Op(statusTimer(Cur), "event"))
    /\ UNCHANGED pureVars

NextRecognition ==
    \/ StartRecording
    \/ StopRecording
    \/ RecOnStart \/ RecOnResult \/ RecOnError \/ RecOnEnd
    \/ StatusTimer

SpecRecognition == Init /\ [][NextRecognition]_vars

\* C8: startRecording called while isRecording is TRUE calls recognition.stop()
\* exactly once and does not call recognition.start().
C8_StartWhileRecordingStops ==
    [][ (lastOp' = "startRecording" /\ isRecording)
        => /\ fx' = <<"recognition.stop">>
           /\ recSession' # "starting" ]_vars

\* startRecording has run while recording, and the session is ending
C8_Witness ==
    /\ lastOp = "startRecording"
    /\ isRecording
    /\ fx = <<"recognition.stop">>
    /\ recSession = "stopping"

(***************************************************************************)
(* The record button with the recognition platform: presses by mouse and   *)
(* by touch, the hold timer, and the recognition events.                   *)
(***************************************************************************)
MouseDown ==
    /\ pointer = "up"
    /\ Commit(Op([buttonDown(Cur) EXCEPT !.pointer = "mouse"], "mousedown"))
    /\ UNCHANGED pureVars

\* the button is released over the button: mouseup, then click
MouseUpClick ==
    /\ pointer = "mouse"
    /\ Commit(Op([buttonClick(buttonRelease(Cur)) EXCEPT !.pointer = "up"], "mouseup"))
    /\ UNCHANGED pureVars

\* the pointer leaves the button while it is down; the button is released elsewhere
MouseLeave ==
    /\ pointer = "mouse"
    /\ Commit(Op([buttonRelease(Cur) EXCEPT !.pointer = "up"], "mouseleave"))
    /\ UNCHANGED pureVars

\* preventDefault: no mouse event and no click follows a touch
TouchStart ==
    /\ pointer = "up"
    /\ Commit(Op([buttonDown(Cur) EXCEPT !.pointer = "touch"], "touchstart"))
    /\ UNCHANGED pureVars

TouchEnd ==
    /\ pointer = "touch"
    /\ Commit(Op([buttonRelease(Cur) EXCEPT !.pointer = "up"], "touchend"))
    /\ UNCHANGED pureVars

\* the button is activated from the keyboard: click alone
KeyboardClick ==
    /\ pointer = "up"
    /\ Commit(Op(buttonClick(Cur), "click"))
    /\ UNCHANGED pureVars

HoldTimer ==
    /\ pressTimer = "pending"
    /\ Commit(Op(holdTimer(Cur), "event"))
    /\ UNCHANGED pureVars

NextButton ==
    \/ MouseDown \/ MouseUpClick \/ MouseLeave
    \/ TouchStart \/ TouchEnd
    \/ KeyboardClick
    \/ HoldTimer
    \/ RecOnStart \/ RecOnError \/ RecOnEnd

SpecButton == Init /\ [][NextButton]_vars

Releases == {"mouseup", "mouseleave", "touchend"}

\* C11: whenever the record button is released (mouseup with its click,
\* mouseleave, touchend) while recording is active, handling the release
\* calls recognition.stop().
C11_ReleaseStops ==
    [][ (lastOp' \in Releases /\ pointer # "up" /\ isRecording)
        => fx' = <<"recognition.stop">> ]_vars

(***************************************************************************)
(* Claims about the frames of a turn                                       *)
(***************************************************************************)
IsErrorFrame(f) == f.type = "status" /\ f.state = "error"

HasErrorFrame(fs) == \E k \in 1..Len(fs) : IsErrorFrame(fs[k])

\* C12: once a Status error frame has been handled the turn is released
\* (isStreaming is FALSE from that point on), and no later frame of the same
\* stream changes currentMessage, the rendered text of the turn or the displayed
\* state.
C12_ErrorFrameReleases ==
    [][ \A i \in 1..Len(calls') :
          HasErrorFrame(calls'[i].handled) =>
            /\ ~isStreaming'
            /\ ( /\ i <= Len(calls)
                 /\ HasErrorFrame(calls[i].handled)
                 /\ calls'[i].handled # calls[i].handled )
               => /\ currentMessage' = currentMessage
                  /\ messages'[calls[i].el] = messages[calls[i].el]
                  /\ avatar' = avatar ]_vars

(***************************************************************************)
(* Turns whose response bodies are read in chunks of any size: what one    *)
(* turn leaves behind meets the next.                                      *)
(***************************************************************************)
StreamLines == {DataLine(TokenDevanagari), MalformedLine}

BodiesWithin(n) ==
    {Join(ls) \o tail : ls \in SeqsUpTo(StreamLines, n), tail \in DecodeTails}

\* fetch resolves with an OK response whose body the backend has written
FetchBody(i) ==
    /\ calls[i].pc = "fetch"
    /\ \E b \in BodiesWithin(MaxDecodeLines - linesSent) :
          Commit(Op([Cur EXCEPT !.calls[i].pc = "reading", !.calls[i].body = b,
                                !.calls[i].rest = b,
                                !.linesSent = @ + NewlinesIn(b)], "event"))
    /\ UNCHANGED pureVars

NextStreams ==
    \/ TypeInput
    \/ SendMessage
    \/ \E i \in 1..Len(calls) : FetchBody(i)
    \/ \E i \in 1..Len(calls) : ReadBytes(i)
    \/ \E i \in 1..Len(calls) : ReadDone(i)

SpecStreams == Init /\ [][NextStreams]_vars

\* the text of the token frames among fs, in order
TokensOf(fs) ==
    Concat([k \in 1..Len(fs) |-> IF fs[k].type = "token" THEN fs[k].content ELSE <<>>])

\* the text received by invocation i
ReceivedText(i) == Utf8Scan(Received(i), TRUE).chars

\* a terminated data line of t does not parse
HasMalformedLine(t) ==
    \E k \in 1..Len(TerminatedLines(t)) :
        LET line == TerminatedLines(t)[k]
        IN  /\ HasMarker(line)
            /\ ~JSONparse(SubSeq(line, Len(Marker) + 1, Len(line))).ok

\* what follows the last newline of t
Unterminated(t) ==
    LET last == IF NewlineAt(t) = {} THEN 0
                ELSE CHOOSE p \in NewlineAt(t) : \A q \in NewlineAt(t) : q <= p
    IN  SubSeq(t, last + 1, Len(t))

\* C13: a terminated data line that does not parse aborts the turn: the catch
\* block has run, the displayed state went to Error and then Idle, the frames
\* handled are those before the malformed line and no other, and the text
\* accumulated before it is still rendered; and the buffer of every turn holds
\* what follows the last newline of that turn's own stream, so nothing of an
\* aborted turn's buffer reaches the next.
C13_MalformedAborts ==
    \A i \in 1..Len(calls) :
        calls[i].body # <<>> =>
            /\ calls[i].buffer = Unterminated(ReceivedText(i))
            /\ HasMalformedLine(ReceivedText(i)) =>
                  /\ calls[i].pc = "done" /\ calls[i].caught
                  /\ calls[i].handled = FramesOf(TerminatedLines(ReceivedText(i)))
                  /\ messages[calls[i].el].content = TokensOf(calls[i].handled)
                  /\ i = Len(calls) =>
                        /\ ~isStreaming /\ avatar = "idle"
                        /\ Len(avatarTrace) >= 2
                        /\ SubSeq(avatarTrace, Len(avatarTrace) - 1, Len(avatarTrace))
                               = <<"error", "idle">>

\* the second turn has handled a frame and has text in its buffer, after a
\* first turn that was aborted
C13_Witness ==
    /\ Len(calls) = 2
    /\ messages[3].content = FailedMessage
    /\ calls[2].handled # <<>>
    /\ calls[2].buffer # <<>>

\* C14: when fetch rejects or resolves with a response that is not OK, the
\* failure message is added as an assistant message, the turn is released with
\* the displayed state Idle, the state has not been Speaking in this turn,
\* speak has not been called, and no request is made again.
C14_FetchFailure ==
    [][ \A i \in 1..Len(calls) :
          (calls[i].pc = "fetch" /\ calls'[i].pc = "done") =>
            /\ messages' = Append(messages, [role |-> "assistant", content |-> FailedMessage])
            /\ ~isStreaming' /\ avatar' = "idle"
            /\ "speaking" \notin Range(avatarTrace')
            /\ speakLog' = <<>>
            /\ Len(calls') = Len(calls)
            /\ \A j \in 1..Len(calls') : calls'[j].pc # "fetch"
            /\ fx' = <<>> ]_vars

\* the request of the second turn failed before any frame, while the settle
\* timer of the first turn was still pending
C14_Witness ==
    /\ Len(calls) = 2
    /\ calls[2].pc = "done" /\ calls[2].caught /\ calls[2].handled = <<>>
    /\ Last(messages).content = FailedMessage
    /\ avatarTrace = <<"thinking", "error", "idle">>
    /\ settleTimers > 0

\* some invocation is handed a frame in this step
FrameHandled ==
    \E i \in 1..Len(calls') :
        i > Len(calls) \/ calls'[i].handled # calls[i].handled

IsCompleteFrame(f) == f.type = "status" /\ f.state = "complete"

\* a settle timer fires in this step
TimerFires == settleTimers' = settleTimers - 1

\* C15: a step whose last handled frame is Status complete leaves the displayed
\* state Speaking, and the state then stays Speaking until a settle timer fires
\* and takes it to Idle, unless another frame is handled first.
C15_SpeakingUntilTimer ==
    [][ /\ \A i \in 1..Len(calls) :
              ( /\ calls'[i].handled # calls[i].handled
                /\ IsCompleteFrame(Last(calls'[i].handled)) )
              => avatar' = "speaking"
        /\ (avatar = "speaking" /\ avatar' # "speaking" /\ ~FrameHandled)
              => (TimerFires /\ avatar' = "idle") ]_vars

(***************************************************************************)
(* Claims about speech output                                              *)
(***************************************************************************)
NothingSpeaking == synthQueue = <<>> /\ currentUtterance = 0

\* C16: while voice output is disabled the platform holds no utterance and the
\* current-utterance slot is empty; a speak call made while it is disabled
\* changes nothing of the speech output and calls nothing on the platform;
\* stopSpeaking always leaves nothing speaking and, when nothing was speaking,
\* changes nothing.
C16_DisabledIsSilent ==
    [][ /\ ~voiceOutputEnabled' => (synthQueue' = <<>> /\ currentUtterance' = 0)
        /\ (lastOp' = "speak" /\ ~voiceOutputEnabled)
              => (synthVars' = synthVars /\ fx' = <<>>)
        /\ lastOp' = "stopSpeaking"
              => /\ synthQueue' = <<>> /\ currentUtterance' = 0 /\ ~synthSpeaking'
                 /\ NothingSpeaking => synthVars' = synthVars ]_vars

\* speak was called while voice output was disabled, after the disabling had
\* cancelled an utterance whose event is still due
C16_Witness ==
    /\ lastOp = "speak"
    /\ ~voiceOutputEnabled
    /\ Len(speakLog) >= 2
    /\ synthEvents # {}

\* C17: a speak call made while the voice list is empty starts no utterance,
\* cancels nothing and leaves currentUtterance and the utterances held by the
\* platform as they were.
C17_NoVoiceNoEffect ==
    [][ (lastOp' = "speak" /\ voices = <<>> /\ speakLog' # speakLog)
        => (synthVars' = synthVars /\ fx' = <<>>) ]_vars

(***************************************************************************)
(* Speech input where the platform ends every session.                     *)
(***************************************************************************)
SpecRecognitionLive == Init /\ [][NextRecognition]_vars /\ WF_vars(RecOnEnd)

CategoryMessages ==
    {"No speech detected", "Microphone not found", "Microphone permission denied",
     "Network error", "Recording error"}

\* the platform delivers recognition.onerror in this step
ErrorDelivered ==
    /\ recSession \in {"starting", "active"}
    /\ recSession' = "stopping"
    /\ lastOp' = "event"

\* C18: the handling of every recognition error shows one of the category
\* messages, none of them empty, and once the session is ending isRecording
\* becomes FALSE.
C18_ErrorReportedAndIdle ==
    /\ [][ ErrorDelivered =>
             /\ voiceStatus'[1] \in CategoryMessages
             /\ voiceStatus'[1] # "" ]_vars
    /\ (recSession = "stopping") ~> ~isRecording

\* an error with a code outside the four named ones was reported while recording
C18_Witness ==
    /\ recSession = "stopping"
    /\ isRecording
    /\ voiceStatus = <<"Recording error", <<>>>>

\* C19: currentMessage is the empty text before the first turn and, from the
\* start of a turn on, the contents of the token frames handed to
\* handleStreamEvent in that turn so far, concatenated in order; frames of other
\* kinds add nothing to it.
C19_TextIsTokensSoFar ==
    currentMessage = IF calls = <<>> THEN <<>> ELSE TokensOf(Last(calls).handled)

\* two token frames with a frame of another kind between them have been handled
C19_Witness ==
    /\ calls # <<>>
    /\ Len(Last(calls).handled) = 3
    /\ Last(calls).handled[1].type = "token"
    /\ Last(calls).handled[2].type = "status"
    /\ Last(calls).handled[3].type = "token"
    /\ Len(currentMessage) = 2

IsThinkingFrame(f) == f.type = "status" /\ f.state = "thinking"

IsTokenFrame(f) == f.type = "token"

\* C20: a step in which an invocation handles just a Status thinking frame, at
\* whatever position of its stream, leaves the displayed state Thinking, raises
\* no error, and leaves currentMessage, the rendered messages and isStreaming
\* as they were; a step that then handles just a token frame leaves the
\* displayed state StreamingText.
C20_ThinkingFrame ==
    [][ \A i \in 1..Len(calls) :
          /\ ( /\ Len(calls'[i].handled) = Len(calls[i].handled) + 1
               /\ calls'[i].handled = Append(calls[i].handled, Last(calls'[i].handled))
               /\ IsThinkingFrame(Last(calls'[i].handled)) )
             => /\ avatar' = "thinking"
                /\ ~calls'[i].caught
                /\ calls'[i].pc = calls[i].pc
                /\ currentMessage' = currentMessage
                /\ messages' = messages
                /\ isStreaming' = isStreaming
          /\ ( /\ calls[i].handled # <<>>
               /\ IsThinkingFrame(Last(calls[i].handled))
               /\ avatar = "thinking"
               /\ Len(calls'[i].handled) = Len(calls[i].handled) + 1
               /\ calls'[i].handled = Append(calls[i].handled, Last(calls'[i].handled))
               /\ IsTokenFrame(Last(calls'[i].handled)) )
             => avatar' = "streaming" ]_vars

\* a thinking frame has been handled after a token frame, in the middle of a turn
C20_Witness ==
    /\ calls # <<>>
    /\ Len(Last(calls).handled) = 2
    /\ IsTokenFrame(Last(calls).handled[1])
    /\ IsThinkingFrame(Last(calls).handled[2])
    /\ Last(calls).pc # "done"
    /\ avatar = "thinking"
    /\ currentMessage # <<>>

\* C21: while a turn is active (isStreaming is TRUE) the displayed state is
\* never Idle; a settle timer left over from the turn before cannot change the
\* displayed state of the turn that follows.
C21_ActiveTurnNeverIdle == isStreaming => avatar # "idle"

\* C22: whenever an utterance submitted by speak is speaking or pending in the
\* platform, currentUtterance refers to it; the end or error event of an
\* utterance that was cancelled and replaced does not clear the slot that holds
\* its successor.
C22_SlotHoldsLiveUtterance ==
    \A k \in 1..Len(synthQueue) : currentUtterance = synthQueue[k]

\* C23: recognition.start() is never invoked on a session that has been started
\* and has not ended, so no handler makes a start() call that throws, and
\* 'Failed to start recording' is not shown while a session is coming up.
C23_NoStartOnStartedSession ==
    /\ "recognition.start:InvalidStateError" \notin Range(fx)
    /\ recSession = "starting" => voiceStatus[1] # "Failed to start recording"

(***************************************************************************)
(* ChatApp with its VoiceChat: the user records while turns are under way. *)
(***************************************************************************)
NextVoice ==
    \/ Next
    \/ StartRecording
    \/ StopRecording
    \/ RecOnStart \/ RecOnEnd

SpecVoice == Init /\ [][NextVoice]_vars

\* C24: in no reachable state is voice input listening (isRecording is TRUE)
\* while a synthesized utterance is current (currentUtterance is not null).
C24_NeverSpeakingAndListening == ~(isRecording /\ currentUtterance # 0)

\* C25: once an invocation has handled a Status error frame, the rendered text
\* of its turn contains the error annotation, whatever frames follow in the
\* same stream, and when the invocation has returned the rendered text is the
\* accumulated reply followed by the annotation.
C25_AnnotationStays ==
    \A i \in 1..Len(calls) :
        HasErrorFrame(calls[i].handled) =>
          /\ Includes(messages[calls[i].el].content, ErrorAnnotation(StatusError.message))
          /\ calls[i].pc = "done" =>
                messages[calls[i].el].content
                    = currentMessage \o ErrorAnnotation(StatusError.message)

====
